---- MODULE Spec2Model ----
(***************************************************************************)
(* A model of the main process of the Gurt overlay application:            *)
(*   - the window state machine of electron/main.ts (visibility, bounds,   *)
(*     click-through mode, keyboard moves),                                *)
(*   - the configuration store and the get/set-api-config IPC handlers,    *)
(*   - the screenshot processing pipeline of electron/ProcessingHelper.ts. *)
(* Each part has its own specification (SpecWindow, SpecConfig, Spec).     *)
(***************************************************************************)
EXTENDS Integers, Sequences, FiniteSets, TLC

(***************************************************************************)
(* Bounds of the model (the environment's values, not program constants).  *)
(***************************************************************************)
\* width and height of the primary display's work area, in pixels
ScreenWidth == 1280
ScreenHeight == 720

(***************************************************************************)
(* Program constants.                                                      *)
(***************************************************************************)
StepSize == 60
InitialWidth == 800
InitialHeight == 600
InitialY == 50

Null == "null"
\* null for a variable that otherwise holds a record
NullRec == [null |-> TRUE]

Max(a, b) == IF a >= b THEN a ELSE b
Min(a, b) == IF a <= b THEN a ELSE b

\* the most screenshots a queue holds in the model
MaxQueue == 1
\* the most extraction attempts of one run the model follows
MaxAttempts == 2

\* Content sizes the renderer reports through update-content-dimensions
\* (scrollWidth, scrollHeight of the mounted page).
ContentSizes ==
  { [width |-> 417, height |-> 350], [width |-> 568, height |-> 600] }

VARIABLES
  \* ---- electron/main.ts: state (window part) ----
  mainWindow,       \* state.mainWindow: Null or "window"
  created,          \* initializeApp has run createWindow
  isWindowVisible,  \* state.isWindowVisible
  windowPosition,   \* state.windowPosition: NullRec or [x, y]
  windowSize,       \* state.windowSize: NullRec or [width, height]
  screenWidth,      \* state.screenWidth
  screenHeight,     \* state.screenHeight
  currentX,         \* state.currentX, in HALF pixels (the code's value times 2)
  currentY,         \* state.currentY, in pixels
  step,             \* state.step
  \* ---- the BrowserWindow object ----
  bounds,           \* what getBounds() returns: NullRec or [x, y, width, height]
  shown,            \* the window is shown (show / hide)
  mouseMode,        \* the last setIgnoreMouseEvents applied to the window
  \* ---- history (not program state) ----
  lastOp            \* the operation that ran last and what it started from

winVars == << mainWindow, created, isWindowVisible, windowPosition, windowSize,
              screenWidth, screenHeight, currentX, currentY, step, bounds,
              shown, mouseMode >>

VARIABLES
  \* ---- the configuration store of electron/main.ts ----
  configFile,       \* config.json: absent, corrupt, or the JSON object it holds
  env,              \* process.env: the variables the application sets
  envLoaded,        \* initializeApp has run loadEnvVariables
  \* ---- history (not program state) ----
  cfgOp             \* the config handler that ran last: input, result, state before

cfgVars == << configFile, env, envLoaded, cfgOp >>

VARIABLES
  \* ---- electron/main.ts: state (processing part) ----
  view,                 \* state.view, read by the processing helper
  problemInfo,          \* state.problemInfo: Null or "info"
  hasDebugged,          \* state.hasDebugged
  \* ---- the screenshot helper ----
  shView,               \* its view
  screenshotQueue,      \* the number of screenshots in its main queue
  extraScreenshotQueue, \* the number of screenshots in its extra queue
  \* ---- electron/ProcessingHelper.ts ----
  isCurrentlyProcessing,
  currentProcessingAbortController,       \* Null or "controller"
  currentExtraProcessingAbortController,  \* Null or "controller"
  run,                  \* the call of processScreenshots that is in flight
  \* ---- history (not program state) ----
  events,               \* the PROCESSING_EVENTS sent since the last run began
  lastRun,              \* the branch and the result of the last run
  callTick              \* flips at every call of processScreenshots

procVars == << view, problemInfo, hasDebugged, shView, screenshotQueue,
               extraScreenshotQueue, isCurrentlyProcessing,
               currentProcessingAbortController,
               currentExtraProcessingAbortController, run, events, lastRun,
               callTick >>

VARIABLES
  \* ---- src/_pages/Main.tsx ----
  rendererView,         \* the view state of Main: "queue" or "solutions"
  \* ---- src/_pages/Solutions.tsx (Null while it is not mounted) ----
  showDebugView,
  debugProcessing,      \* passed to Debug as isProcessing
  \* ---- the query cache of the renderer ----
  queryCache,           \* the keys "solution", "new_solution", "debug_solution"
  \* ---- src/_pages/Debug.tsx (Null while it is not mounted) ----
  newCode,
  thoughtsData,
  timeComplexityData,
  spaceComplexityData,
  \* ---- history (not program state) ----
  delivered             \* the last event handled and the toasts it showed

rendVars == << rendererView, showDebugView, debugProcessing, queryCache,
               newCode, thoughtsData, timeComplexityData, spaceComplexityData,
               delivered >>

vars == << winVars, cfgVars, procVars, rendVars, lastOp >>

\* What an operation of one part leaves alone.
NotWindow == UNCHANGED winVars
NotConfig == UNCHANGED cfgVars
NotProcessing == UNCHANGED procVars
NotRenderer == UNCHANGED rendVars

(***************************************************************************)
(* Window: electron/main.ts                                                *)
(***************************************************************************)
\* Math.round of a value given in half pixels (halves round towards +infinity)
MathRoundHalf(x2) == (x2 + 1) \div 2

IgnoreForward == "ignoreForward"   \* setIgnoreMouseEvents(true, {forward: true})
Interactive == "interactive"       \* setIgnoreMouseEvents(false)

Last(s) == s[Len(s)]

\* History: what the claims about an operation need of the state it started in.
Toggles == {"toggleMainWindow", "toggle-window"}
HorizontalMoves == {"moveWindowLeft", "moveWindowRight"}
VerticalMoves == {"moveWindowUp", "moveWindowDown"}
Pre(name) ==
  IF name \in Toggles THEN [vis |-> isWindowVisible, bounds |-> bounds]
  ELSE IF name \in HorizontalMoves THEN [currentX |-> currentX]
  ELSE IF name \in VerticalMoves THEN [currentY |-> currentY]
  ELSE IF name = "trigger-reset" THEN [mouse |-> mouseMode]
  ELSE NullRec
\* pre2: the state before the previous operation when both are toggles
Op(name) ==
  [op |-> name, pre |-> Pre(name),
   pre2 |-> IF name \in Toggles /\ lastOp.op \in Toggles THEN lastOp.pre ELSE NullRec]

\* The same for an operation of the processing helper
ProcOp(name, skipped) ==
  [op |-> name, pre |-> [skipped |-> skipped], pre2 |-> NullRec]

\* Variant for C5: a "move" listener that does not record the new position
handleWindowMoveStale(b) ==
  /\ UNCHANGED windowPosition
  /\ currentX' = 2 * b.x
  /\ currentY' = b.y

\* "move" listener
handleWindowMove(b) ==
  /\ windowPosition' = [x |-> b.x, y |-> b.y]
  /\ currentX' = 2 * b.x
  /\ currentY' = b.y

\* "resize" listener
handleWindowResize(b) ==
  windowSize' = [width |-> b.width, height |-> b.height]

\* BrowserWindow.setBounds / setPosition: the window takes the bounds nb and
\* emits "move" and "resize" to the listeners registered by createWindow when
\* its position or its size changed; cx, cy are the values state.currentX and
\* state.currentY hold when the call is made.
SetBounds(nb, cx, cy) ==
  /\ bounds' = nb
  /\ IF nb.x # bounds.x \/ nb.y # bounds.y
       THEN handleWindowMove(nb)
       ELSE /\ currentX' = cx
            /\ currentY' = cy
            /\ UNCHANGED windowPosition
  /\ IF nb.width # bounds.width \/ nb.height # bounds.height
       THEN handleWindowResize(nb)
       ELSE UNCHANGED windowSize

WidthOr0 == IF windowSize = NullRec THEN 0 ELSE windowSize.width
HeightOr0 == IF windowSize = NullRec THEN 0 ELSE windowSize.height

\* The setIgnoreMouseEvents calls of each operation, in order.
CreateMouseCalls == << IgnoreForward >>
HideMouseCalls == << IgnoreForward >>
\* showMainWindow, then the "show" listener
ShowMouseCalls == << IgnoreForward, IgnoreForward >>
\* Variant for C4: the two "Reset mouse events" calls in the other order
ResetMouseCallsSwapped == << IgnoreForward, Interactive >>
\* toggle-window and trigger-reset: "Reset mouse events"
ResetMouseCalls == << Interactive, IgnoreForward >>
SetIgnoreMouseCalls == << IgnoreForward >>
SetInteractiveMouseCalls == << Interactive >>

createWindow ==
  /\ ~created
  /\ mainWindow = Null
  /\ created' = TRUE
  /\ mainWindow' = "window"
  /\ screenWidth' = ScreenWidth
  /\ screenHeight' = ScreenHeight
  /\ step' = StepSize
  /\ bounds' = [x |-> MathRoundHalf(currentX), y |-> InitialY,
                width |-> InitialWidth, height |-> InitialHeight]
  /\ mouseMode' = Last(CreateMouseCalls)
  /\ shown' = TRUE
  /\ windowPosition' = [x |-> bounds'.x, y |-> bounds'.y]
  /\ windowSize' = [width |-> bounds'.width, height |-> bounds'.height]
  /\ currentX' = 2 * bounds'.x
  /\ currentY' = bounds'.y
  /\ isWindowVisible' = TRUE
  /\ lastOp' = Op("createWindow")
  /\ NotConfig
  /\ NotRenderer
  /\ NotProcessing

\* "closed" listener: the user or the system closed the window
handleWindowClosed ==
  /\ mainWindow # Null
  /\ mainWindow' = Null
  /\ isWindowVisible' = FALSE
  /\ windowPosition' = NullRec
  /\ windowSize' = NullRec
  /\ bounds' = NullRec
  /\ shown' = FALSE
  /\ lastOp' = Op("closed")
  /\ NotConfig
  /\ NotRenderer
  /\ NotProcessing
  /\ UNCHANGED << created, screenWidth, screenHeight, currentX, currentY, step,
                  mouseMode >>

\* hideMainWindow with a window; then the mouse calls `after` of the caller
HideBody(after) ==
  /\ windowPosition' = [x |-> bounds.x, y |-> bounds.y]
  /\ windowSize' = [width |-> bounds.width, height |-> bounds.height]
  /\ mouseMode' = Last(HideMouseCalls \o after)
  /\ shown' = FALSE
  /\ isWindowVisible' = FALSE
  /\ UNCHANGED << mainWindow, created, screenWidth, screenHeight, currentX,
                  currentY, step, bounds >>

\* showMainWindow with a window; then the mouse calls `after` of the caller
ShowBody(after) ==
  /\ IF windowPosition # NullRec /\ windowSize # NullRec
       THEN SetBounds([x |-> windowPosition.x, y |-> windowPosition.y,
                       width |-> windowSize.width,
                       height |-> windowSize.height], currentX, currentY)
       ELSE UNCHANGED << bounds, currentX, currentY, windowPosition,
                         windowSize >>
  /\ mouseMode' = Last(ShowMouseCalls \o after)
  /\ shown' = TRUE
  /\ isWindowVisible' = TRUE
  /\ UNCHANGED << mainWindow, created, screenWidth, screenHeight, step >>

\* With no window hideMainWindow and showMainWindow throw a TypeError before
\* they change anything (!undefined is true), so the actions need a window.
hideMainWindow ==
  /\ mainWindow # Null
  /\ HideBody(<< >>)
  /\ lastOp' = Op("hideMainWindow")
  /\ NotConfig
  /\ NotRenderer
  /\ NotProcessing

showMainWindow ==
  /\ mainWindow # Null
  /\ ShowBody(<< >>)
  /\ lastOp' = Op("showMainWindow")
  /\ NotConfig
  /\ NotRenderer
  /\ NotProcessing

ToggleBody(after) ==
  IF isWindowVisible THEN HideBody(after) ELSE ShowBody(after)

\* the global shortcut
toggleMainWindow ==
  /\ mainWindow # Null
  /\ ToggleBody(<< >>)
  /\ lastOp' = Op("toggleMainWindow")
  /\ NotConfig
  /\ NotRenderer
  /\ NotProcessing

\* ipcMain.handle("toggle-window")
ToggleWindowHandler ==
  /\ mainWindow # Null
  /\ ToggleBody(ResetMouseCalls)
  /\ lastOp' = Op("toggle-window")
  /\ NotConfig
  /\ NotRenderer
  /\ NotProcessing

\* ipcMain.handle("set-ignore-mouse-events")
SetIgnoreMouseEventsHandler ==
  /\ mainWindow # Null
  /\ mouseMode' = Last(SetIgnoreMouseCalls)
  /\ lastOp' = Op("set-ignore-mouse-events")
  /\ NotConfig
  /\ NotRenderer
  /\ NotProcessing
  /\ UNCHANGED << mainWindow, created, isWindowVisible, windowPosition,
                  windowSize, screenWidth, screenHeight, currentX, currentY,
                  step, bounds, shown >>

\* ipcMain.handle("set-interactive-mouse-events")
SetInteractiveMouseEventsHandler ==
  /\ mainWindow # Null
  /\ mouseMode' = Last(SetInteractiveMouseCalls)
  /\ lastOp' = Op("set-interactive-mouse-events")
  /\ NotConfig
  /\ NotRenderer
  /\ NotProcessing
  /\ UNCHANGED << mainWindow, created, isWindowVisible, windowPosition,
                  windowSize, screenWidth, screenHeight, currentX, currentY,
                  step, bounds, shown >>

\* updateFn of moveWindowLeft / moveWindowRight, on half pixels
MoveLeftFn(x) == Max(-WidthOr0, x - 2 * step)
\* Variant for C9: a move to the right without the clamp
MoveRightFnUnclamped(x) == x + 2 * step
MoveRightFn(x) == Min(2 * screenWidth - WidthOr0, x + 2 * step)

moveWindowHorizontal(newX, name) ==
  /\ mainWindow # Null
  /\ SetBounds([bounds EXCEPT !.x = MathRoundHalf(newX), !.y = currentY],
               newX, currentY)
  /\ lastOp' = Op(name)
  /\ NotConfig
  /\ NotRenderer
  /\ NotProcessing
  /\ UNCHANGED << mainWindow, created, isWindowVisible, screenWidth,
                  screenHeight, step, shown, mouseMode >>

moveWindowLeft == moveWindowHorizontal(MoveLeftFn(currentX), "moveWindowLeft")
moveWindowRight == moveWindowHorizontal(MoveRightFn(currentX), "moveWindowRight")

\* newY >= maxUpLimit /\ newY <= maxDownLimit, with the limits times 3
VerticalInBounds(newY) ==
  /\ 3 * newY >= -(HeightOr0 * 2)
  /\ 3 * newY <= 3 * screenHeight + HeightOr0 * 2

moveWindowVertical(newY, name) ==
  /\ mainWindow # Null
  /\ IF VerticalInBounds(newY)
       THEN SetBounds([bounds EXCEPT !.x = MathRoundHalf(currentX), !.y = newY],
                      currentX, newY)
       ELSE UNCHANGED << bounds, currentX, currentY, windowPosition, windowSize >>
  /\ lastOp' = Op(name)
  /\ NotConfig
  /\ NotRenderer
  /\ NotProcessing
  /\ UNCHANGED << mainWindow, created, isWindowVisible, screenWidth,
                  screenHeight, step, shown, mouseMode >>

moveWindowUp == moveWindowVertical(currentY - step, "moveWindowUp")
moveWindowDown == moveWindowVertical(currentY + step, "moveWindowDown")

\* setWindowDimensions, called by update-content-dimensions
setWindowDimensions(width, height) ==
  /\ mainWindow # Null
  /\ LET maxWidth == ScreenWidth \div 2
     IN SetBounds([x |-> Min(bounds.x, ScreenWidth - maxWidth), y |-> bounds.y,
                   width |-> Min(width + 32, maxWidth), height |-> height],
                  currentX, currentY)
  /\ lastOp' = Op("setWindowDimensions")
  /\ NotConfig
  /\ NotRenderer
  /\ NotProcessing
  /\ UNCHANGED << mainWindow, created, isWindowVisible, screenWidth,
                  screenHeight, step, shown, mouseMode >>

UpdateContentDimensionsHandler ==
  \E c \in ContentSizes : setWindowDimensions(c.width, c.height)

(***************************************************************************)
(* Configuration store (electron/main.ts) and the get-api-config and       *)
(* set-api-config handlers (electron/ipcHandlers.ts).                      *)
(* A JavaScript value is a record with its type t and, for a string, its   *)
(* characters v.                                                           *)
(***************************************************************************)
Undefined == [t |-> "undefined"]
Str(s) == [t |-> "string", v |-> s]
NumberValue == [t |-> "number", v |-> 5]

typeof(x) == x.t
\* JavaScript truthiness: !x is ~Truthy(x)
Truthy(x) ==
  CASE x.t = "undefined" -> FALSE
    [] x.t = "string" -> Len(x.v) > 0
    [] x.t = "number" -> x.v # 0

IsSpace(c) == c = " "

RECURSIVE TrimStart(_)
TrimStart(s) ==
  IF s # << >> /\ IsSpace(Head(s)) THEN TrimStart(Tail(s)) ELSE s

RECURSIVE TrimEnd(_)
TrimEnd(s) ==
  IF s # << >> /\ IsSpace(s[Len(s)])
    THEN TrimEnd(SubSeq(s, 1, Len(s) - 1))
    ELSE s

\* String.prototype.trim
Trim(s) == TrimEnd(TrimStart(s))

\* String.prototype.startsWith
StartsWith(s, prefix) ==
  /\ Len(s) >= Len(prefix)
  /\ SubSeq(s, 1, Len(prefix)) = prefix

GeminiPrefix == << "g", "e", "m", "i", "n", "i" >>
OpenAI == Str(<< "o", "p", "e", "n", "a", "i" >>)
Gemini == Str(GeminiPrefix)
DefaultModel == Str(<< "g", "p", "t", "-", "4", "o" >>)

\* The inputs of set-api-config the model draws from.
ApiKeys ==
  { Undefined, NumberValue, Str(<< >>), Str(<< " ", " " >>),
    Str(<< "k" >>), Str(<< " ", "k", " ", "j", " " >>) }
ApiModels ==
  { Undefined, NumberValue, Str(<< >>), DefaultModel, Str(<< "g", "e", "m" >>),
    Str(GeminiPrefix \o << "-", "2", ".", "0" >>) }
ApiConfigs == { Undefined } \cup [apiKey : ApiKeys, model : ApiModels]

\* config.json: the keys "api-key", "api-model" and "api-provider" of the file
\* are the fields apiKey, apiModel and apiProvider of the record
FileAbsent == [state |-> "absent"]
FileCorrupt == [state |-> "corrupt"]
EmptyConfig == [apiKey |-> Undefined, apiModel |-> Undefined,
                apiProvider |-> Undefined]
FileOf(c) == [state |-> "ok", config |-> c]

\* store.get(key) with wOk: the writes it attempts succeed. A record of the
\* value, whether it threw, and the file afterwards.
StoreGet(file, key, wOk) ==
  CASE file.state = "absent" ->
         IF wOk THEN [value |-> Undefined, threw |-> FALSE,
                      file |-> FileOf(EmptyConfig)]
                ELSE [value |-> Undefined, threw |-> TRUE, file |-> file]
    [] file.state = "corrupt" ->
         [value |-> Undefined, threw |-> FALSE,
          file |-> IF wOk THEN FileOf(EmptyConfig) ELSE file]
    [] file.state = "ok" ->
         [value |-> file.config[key], threw |-> FALSE, file |-> file]

\* store.set(key, value) with wOk: the write succeeds. The boolean it returns
\* and the file afterwards.
StoreSet(file, key, value, wOk) ==
  LET config == IF file.state = "ok" THEN file.config ELSE EmptyConfig
  IN IF wOk
       THEN [ok |-> TRUE, file |-> FileOf([config EXCEPT ![key] = value])]
       ELSE [ok |-> FALSE, file |-> file]

\* x || d
OrDefault(x, d) == IF Truthy(x) THEN x ELSE d

EmptyEnv ==
  [API_PROVIDER |-> Undefined, API_KEY |-> Undefined, API_MODEL |-> Undefined,
   OPENAI_API_KEY |-> Undefined, VITE_OPEN_AI_API_KEY |-> Undefined,
   OPENAI_MODEL |-> Undefined, GEMINI_API_KEY |-> Undefined]

\* "Set environment variables based on provider"
EnvFor(e, provider, apiKey, model) ==
  LET generic == [e EXCEPT !.API_PROVIDER = provider, !.API_KEY = apiKey,
                           !.API_MODEL = model]
  IN IF provider = OpenAI
       THEN [generic EXCEPT !.OPENAI_API_KEY = apiKey,
                            !.VITE_OPEN_AI_API_KEY = apiKey,
                            !.OPENAI_MODEL = model,
                            !.GEMINI_API_KEY = Undefined]
     ELSE IF provider = Gemini
       THEN [generic EXCEPT !.GEMINI_API_KEY = apiKey,
                            !.OPENAI_API_KEY = Undefined,
                            !.VITE_OPEN_AI_API_KEY = Undefined,
                            !.OPENAI_MODEL = Undefined]
     ELSE generic

\* "Determine provider based on model prefix"
ProviderOf(model) == IF StartsWith(model.v, GeminiPrefix) THEN Gemini ELSE OpenAI

\* The two validations of set-api-config
\* Variant for C8: the first validation without "!apiKey.trim()"
InvalidApiKeyUntrimmed(apiKey) ==
  \/ ~Truthy(apiKey)
  \/ typeof(apiKey) # "string"
InvalidApiKey(apiKey) ==
  \/ ~Truthy(apiKey)
  \/ typeof(apiKey) # "string"
  \/ ~Truthy(Str(Trim(apiKey.v)))
InvalidModel(model) ==
  \/ ~Truthy(model)
  \/ typeof(model) # "string"

Failure(msg) == [success |-> FALSE, error |-> msg]

\* The three reads of get-api-config and loadEnvVariables, in order
ReadConfig(file, wOk) ==
  LET k == StoreGet(file, "apiKey", wOk)
      m == StoreGet(k.file, "apiModel", wOk)
      p == StoreGet(m.file, "apiProvider", wOk)
  IN [apiKey |-> k.value, model |-> OrDefault(m.value, DefaultModel),
      provider |-> OrDefault(p.value, OpenAI),
      threw |-> k.threw \/ m.threw \/ p.threw, file |-> p.file]

\* What get-api-config returns
GetApiConfigResult(r) ==
  IF r.threw THEN Failure("Failed to retrieve API config")
  ELSE IF ~Truthy(r.apiKey) THEN Failure("API key not found")
  ELSE [success |-> TRUE, apiKey |-> r.apiKey, model |-> r.model,
        provider |-> r.provider]

\* sent: "api-key-updated" was sent to the renderer; changed: the handler
\* changed config.json or process.env
CfgOp(name, input, result, sent) ==
  [op |-> name, input |-> input, result |-> result, sent |-> sent,
   changed |-> (configFile' # configFile \/ env' # env)]

\* loadEnvVariables, run once by initializeApp
loadEnvVariables ==
  /\ ~envLoaded
  /\ envLoaded' = TRUE
  /\ \E wOk \in BOOLEAN :
       LET r == ReadConfig(configFile, wOk)
       IN /\ configFile' = r.file
          /\ env' = IF ~r.threw /\ Truthy(r.apiKey)
                      THEN EnvFor(env, r.provider, r.apiKey, r.model)
                      ELSE env
  /\ cfgOp' = CfgOp("loadEnvVariables", Undefined, [success |-> TRUE], FALSE)
  /\ NotWindow
  /\ NotProcessing
  /\ NotRenderer
  /\ UNCHANGED lastOp

\* ipcMain.handle("get-api-config")
GetApiConfigHandler ==
  /\ envLoaded
  /\ UNCHANGED << env, envLoaded >>
  /\ \E wOk \in BOOLEAN :
       LET r == ReadConfig(configFile, wOk)
       IN /\ configFile' = r.file
          /\ cfgOp' = CfgOp("get-api-config", Undefined,
                            GetApiConfigResult(r), FALSE)
  /\ NotWindow
  /\ NotProcessing
  /\ NotRenderer
  /\ UNCHANGED lastOp

\* A call of set-api-config that returns an error before it stores anything
RejectApiConfig(config, msg) ==
  /\ UNCHANGED << configFile, env >>
  /\ cfgOp' = CfgOp("set-api-config", config, Failure(msg), FALSE)

\* set-api-config past its validations; w1, w2, w3: the three writes succeed
StoreApiConfig(config, w1, w2, w3) ==
  LET apiKey == Str(Trim(config.apiKey.v))
      model == config.model
      provider == ProviderOf(model)
      successKey == StoreSet(configFile, "apiKey", apiKey, w1)
      successModel == StoreSet(successKey.file, "apiModel", model, w2)
      successProvider == StoreSet(successModel.file, "apiProvider", provider, w3)
  IN /\ configFile' = successProvider.file
     /\ env' = EnvFor(env, provider, apiKey, model)
     /\ cfgOp' = CfgOp("set-api-config", config, [success |-> TRUE],
                       mainWindow # Null)

\* ipcMain.handle("set-api-config")
SetApiConfigHandler ==
  /\ envLoaded
  /\ \E config \in ApiConfigs :
       IF config = Undefined
         THEN RejectApiConfig(config, "Failed to save configuration")
       ELSE IF InvalidApiKey(config.apiKey)
         THEN RejectApiConfig(config, "Invalid API key")
       ELSE IF InvalidModel(config.model)
         THEN RejectApiConfig(config, "Invalid model selection")
       ELSE \E w1, w2, w3 \in BOOLEAN : StoreApiConfig(config, w1, w2, w3)
  /\ UNCHANGED envLoaded
  /\ NotWindow
  /\ NotProcessing
  /\ NotRenderer
  /\ UNCHANGED lastOp

\* The state createWindow leaves, for the specifications that start after it.
WindowCreated ==
  /\ mainWindow = "window"
  /\ created = TRUE
  /\ isWindowVisible = TRUE
  /\ windowPosition = [x |-> 0, y |-> InitialY]
  /\ windowSize = [width |-> InitialWidth, height |-> InitialHeight]
  /\ screenWidth = ScreenWidth
  /\ screenHeight = ScreenHeight
  /\ currentX = 0
  /\ currentY = InitialY
  /\ step = StepSize
  /\ bounds = [x |-> 0, y |-> InitialY, width |-> InitialWidth,
               height |-> InitialHeight]
  /\ shown = TRUE
  /\ mouseMode = IgnoreForward
  /\ lastOp = [op |-> "createWindow", pre |-> NullRec, pre2 |-> NullRec]

\* A configuration saved by an earlier session.
SavedConfig ==
  [apiKey |-> Str(<< "k", "0" >>), apiModel |-> Str(<< "o", "3" >>),
   apiProvider |-> OpenAI]

(***************************************************************************)
(* Processing: electron/ProcessingHelper.ts with the state accessors of    *)
(* electron/main.ts. The operators below work on a record of the           *)
(* processing variables, so that the statements of one handler compose in  *)
(* the order of the code; Commit assigns the record to the variables.      *)
(***************************************************************************)
INITIAL_START == "initial-start"
PROBLEM_EXTRACTED == "problem-extracted"
SOLUTION_SUCCESS == "solution-success"
INITIAL_SOLUTION_ERROR == "solution-error"
NO_SCREENSHOTS == "processing-no-screenshots"
API_KEY_INVALID == "processing-api-key-invalid"
DEBUG_START == "debug-start"
DEBUG_SUCCESS == "debug-success"
DEBUG_ERROR == "debug-error"

\* The history of the last processScreenshots call that passed the guard
LastRun(branch, result) ==
  [branch |-> branch, result |-> result, extracted |-> FALSE]

NoRun ==
  [pc |-> "idle", branch |-> "none", mainWindow |-> Null,
   signalAborted |-> FALSE, problemInfo |-> Null, attempts |-> 0]

Snapshot ==
  [view |-> view, problemInfo |-> problemInfo, hasDebugged |-> hasDebugged,
   shView |-> shView, screenshotQueue |-> screenshotQueue,
   extraScreenshotQueue |-> extraScreenshotQueue,
   isCurrentlyProcessing |-> isCurrentlyProcessing,
   currentProcessingAbortController |-> currentProcessingAbortController,
   currentExtraProcessingAbortController |->
     currentExtraProcessingAbortController,
   run |-> run, events |-> events, lastRun |-> lastRun]

Commit(s) ==
  /\ view' = s.view
  /\ problemInfo' = s.problemInfo
  /\ hasDebugged' = s.hasDebugged
  /\ shView' = s.shView
  /\ screenshotQueue' = s.screenshotQueue
  /\ extraScreenshotQueue' = s.extraScreenshotQueue
  /\ isCurrentlyProcessing' = s.isCurrentlyProcessing
  /\ currentProcessingAbortController' = s.currentProcessingAbortController
  /\ currentExtraProcessingAbortController' =
       s.currentExtraProcessingAbortController
  /\ run' = s.run
  /\ events' = s.events
  /\ lastRun' = s.lastRun

\* mainWindow.webContents.send(event) on a live window
Send(s, event) == [s EXCEPT !.events = Append(@, event)]
\* the same behind "if (mainWindow && !mainWindow.isDestroyed())"
SendIfWindow(s, event) == IF mainWindow # Null THEN Send(s, event) ELSE s

\* main.ts setView
setView(s, v) == [s EXCEPT !.view = v, !.shView = v]
\* main.ts setProblemInfo
setProblemInfo(s, info) == [s EXCEPT !.problemInfo = info]
\* main.ts setHasDebugged
setHasDebugged(s, value) == [s EXCEPT !.hasDebugged = value]
\* ScreenshotHelper.setView
ScreenshotHelperSetView(s, v) == [s EXCEPT !.shView = v]
\* ScreenshotHelper.clearQueues
ScreenshotHelperClearQueues(s) ==
  [s EXCEPT !.screenshotQueue = 0, !.extraScreenshotQueue = 0]
\* ScreenshotHelper.clearExtraScreenshotQueue
clearExtraScreenshotQueue(s) == [s EXCEPT !.extraScreenshotQueue = 0]
\* main.ts clearQueues
clearQueues(s) ==
  setView([ScreenshotHelperClearQueues(s) EXCEPT !.problemInfo = Null], "queue")

\* AbortController.abort of the controller a field holds: it is the
\* controller of the run in flight, whose signal the run's API calls watch.
AbortControllers(s) ==
  IF s.currentProcessingAbortController # Null
       \/ s.currentExtraProcessingAbortController # Null
    THEN [s EXCEPT !.run.signalAborted = TRUE,
                   !.currentProcessingAbortController = Null,
                   !.currentExtraProcessingAbortController = Null]
    ELSE s

\* ProcessingHelper.cancelOngoingRequests
cancelOngoingRequests(s) ==
  LET wasCancelled ==
        \/ s.currentProcessingAbortController # Null
        \/ s.currentExtraProcessingAbortController # Null
      t == setProblemInfo(setHasDebugged(AbortControllers(s), FALSE), Null)
  IN IF wasCancelled THEN SendIfWindow(t, NO_SCREENSHOTS) ELSE t

\* ProcessingHelper.cancelProcessing
cancelProcessing(s) == AbortControllers(s)

\* The end of processScreenshots: the finally blocks, and the result for
\* the history.
Finish(s, result) ==
  [s EXCEPT !.currentProcessingAbortController =
               IF s.run.branch = "queue" THEN Null ELSE @,
            !.currentExtraProcessingAbortController =
               IF s.run.branch = "debug" THEN Null ELSE @,
            !.isCurrentlyProcessing = FALSE,
            !.lastRun = [@ EXCEPT !.result = result],
            !.run = NoRun]

\* Variant for C2: a failed result that resets the view without telling the
\* renderer
QueueResultFailedSilent(s) ==
  IF mainWindow # Null
    THEN Finish(setView(s, "queue"), "failed")
    ELSE Finish(s, "threw")

\* processScreenshots, queue branch, "if (!result.success)": the window of
\* the call is destroyed when it was closed since, and send then throws; the
\* catch block sends again, which throws out of processScreenshots.
QueueResultFailed(s) ==
  IF mainWindow # Null
    THEN Finish(setView(Send(s, INITIAL_SOLUTION_ERROR), "queue"), "failed")
    ELSE Finish(s, "threw")

\* processScreenshots, queue branch, the catch block
QueueCatch(s) ==
  IF mainWindow # Null
    THEN Finish(setView(Send(Send(s, INITIAL_SOLUTION_ERROR),
                             INITIAL_SOLUTION_ERROR), "queue"), "failed")
    ELSE Finish(s, "threw")

\* processScreenshots, queue branch, after a successful result
QueueResultSuccess(s) ==
  IF mainWindow # Null
    THEN Finish(setView(Send(s, SOLUTION_SUCCESS), "solutions"), "success")
    ELSE Finish(s, "threw")

\* processScreenshots, debug branch, after the helper returned
DebugResult(s, success) ==
  IF success
    THEN IF mainWindow # Null
           THEN Finish(Send(setHasDebugged(s, TRUE), DEBUG_SUCCESS), "success")
           ELSE Finish(setHasDebugged(s, TRUE), "threw")
    ELSE IF mainWindow # Null
           THEN Finish(Send(s, DEBUG_ERROR), "failed")
           ELSE Finish(s, "threw")

\* processScreenshots, debug branch, the catch block
DebugCatch(s) ==
  IF mainWindow # Null
    THEN Finish(Send(s, DEBUG_ERROR), "failed")
    ELSE Finish(s, "threw")

\* process.env.API_PROVIDER || "openai" and process.env.API_KEY
Provider == OrDefault(env.API_PROVIDER, OpenAI)
HasApiKey == Truthy(env.API_KEY)

\* The first synchronous part of processScreenshots, up to its first await.
StartRun(s) ==
  IF s.view = "queue"
    THEN LET t == Send([s EXCEPT !.events = << >>], INITIAL_START)
         IN IF t.screenshotQueue = 0
              THEN [Send(t, NO_SCREENSHOTS) EXCEPT
                      !.isCurrentlyProcessing = FALSE,
                      !.lastRun = LastRun("queue", "no-screenshots")]
              ELSE [t EXCEPT
                      !.currentProcessingAbortController = "controller",
                      !.run = [NoRun EXCEPT !.pc = "read", !.branch = "queue"],
                      !.lastRun = LastRun("queue", "running")]
    ELSE LET t == [s EXCEPT !.events = << >>]
         IN IF t.extraScreenshotQueue = 0
              THEN [Send(t, NO_SCREENSHOTS) EXCEPT
                      !.isCurrentlyProcessing = FALSE,
                      !.lastRun = LastRun("debug", "no-screenshots")]
              ELSE [Send(t, DEBUG_START) EXCEPT
                      !.currentExtraProcessingAbortController = "controller",
                      !.run = [NoRun EXCEPT !.pc = "read", !.branch = "debug"],
                      !.lastRun = LastRun("debug", "running")]

\* Variant for C1: processScreenshots without the isCurrentlyProcessing guard
ProcessScreenshotsCallUnguarded(s) ==
  LET t == [s EXCEPT !.isCurrentlyProcessing = TRUE]
  IN IF mainWindow = Null
       THEN [t EXCEPT !.lastRun = LastRun("none", "no-window")]
       ELSE StartRun(t)

\* processScreenshots, from the call to its first await or its return
ProcessScreenshotsCall(s) ==
  IF s.isCurrentlyProcessing
    THEN s
    ELSE LET t == [s EXCEPT !.isCurrentlyProcessing = TRUE]
         IN IF mainWindow = Null
              THEN [t EXCEPT !.lastRun = LastRun("none", "no-window")]
              ELSE StartRun(t)

\* ipcMain.handle("process-screenshots" / "trigger-process-screenshots") and
\* the shortcut
processScreenshots ==
  /\ Commit(ProcessScreenshotsCall(Snapshot))
  /\ lastOp' = ProcOp("processScreenshots", isCurrentlyProcessing)
  /\ callTick' = ~callTick
  /\ NotWindow
  /\ NotConfig
  /\ NotRenderer

MAX_RETRIES == 0

\* processScreenshotsHelper, the catch block, with retryCount = 0: it
\* returns { success: false }, and processScreenshots goes on from there.
HelperCatch(s, cancelled) ==
  IF cancelled \/ 0 >= MAX_RETRIES
    THEN QueueResultFailed(s)
    ELSE [s EXCEPT !.run.pc = "lang", !.run.mainWindow = mainWindow]

\* One turn of the loop of processScreenshotsHelper, up to "await getLanguage"
HelperAttempt(s) ==
  [s EXCEPT !.run.pc = "lang", !.run.mainWindow = mainWindow,
            !.run.attempts = @ + 1]

\* "await Promise.all(...)" of processScreenshots is over: the screenshots
\* were read (ok) or reading them threw.
ScreenshotsRead(s, ok) ==
  IF s.run.branch = "queue"
    THEN IF ok THEN HelperAttempt(s) ELSE QueueCatch(s)
    ELSE IF ok
           THEN [s EXCEPT !.run.pc = "lang", !.run.problemInfo = s.problemInfo]
           ELSE DebugCatch(s)

\* processExtraScreenshotsHelper, the catch block, by the kind of error
DebugHelperCatch(s, kind) ==
  CASE kind = "abort" -> DebugResult(s, FALSE)
    [] kind = "timeout" ->
         DebugResult(
           SendIfWindow(setView(clearQueues(cancelOngoingRequests(s)), "queue"),
                        DEBUG_ERROR), FALSE)
    [] kind = "invalid-key" ->
         DebugResult(SendIfWindow(s, API_KEY_INVALID), FALSE)
    [] OTHER -> DebugResult(s, FALSE)

\* After "await getLanguage()" and "await getConfiguredModel()" of
\* processScreenshotsHelper (queue) and processExtraScreenshotsHelper (debug):
\* the checks before the API call, which is then in flight.
LanguageRead(s) ==
  IF s.run.branch = "queue"
    THEN IF ~HasApiKey THEN HelperCatch(s, FALSE)
         ELSE IF Provider = OpenAI THEN [s EXCEPT !.run.pc = "extract"]
         ELSE IF Provider = Gemini
           THEN IF s.run.signalAborted
                  THEN HelperCatch(s, TRUE)
                  ELSE [s EXCEPT !.run.pc = "extract"]
         ELSE HelperCatch(s, FALSE)
    ELSE IF s.run.problemInfo = Null THEN DebugHelperCatch(s, "error")
         ELSE IF ~HasApiKey THEN DebugHelperCatch(s, "error")
         ELSE IF Provider = OpenAI THEN [s EXCEPT !.run.pc = "call"]
         ELSE IF Provider = Gemini
           THEN IF s.run.signalAborted
                  THEN DebugHelperCatch(s, "abort")
                  ELSE [s EXCEPT !.run.pc = "call"]
         ELSE DebugHelperCatch(s, "error")

\* What an API call in flight can come back with. The OpenAI client is given
\* the signal and rejects once it is aborted; the Gemini call is not given it
\* (the listener that throws is outside the awaited call).
CallOutcomes(s, results) ==
  IF Provider = OpenAI /\ s.run.signalAborted
    THEN {"abort", "error"}
    ELSE results
ExtractionResults == {"text", "empty", "error"}
SolutionResults == {"text", "timeout", "invalid-key", "error"}
DebugResults == {"text", "timeout", "invalid-key", "error"}

\* Variant for C3: the helper goes on to the solutions without sending
\* PROBLEM_EXTRACTED
ExtractionReturnedUnannounced(s, outcome) ==
  IF outcome = "text"
    THEN LET t == [setProblemInfo(s, "info") EXCEPT !.lastRun.extracted = TRUE]
         IN IF s.run.mainWindow # Null
              THEN IF mainWindow # Null
                     THEN [t EXCEPT !.run.pc = "solveLang",
                                    !.run.problemInfo = t.problemInfo]
                     ELSE HelperCatch(t, FALSE)
              ELSE HelperAttempt(t)
    ELSE HelperCatch(s, outcome = "abort")

\* processScreenshotsHelper after the extraction call
ExtractionReturned(s, outcome) ==
  IF outcome = "text"
    THEN LET t == [setProblemInfo(s, "info") EXCEPT !.lastRun.extracted = TRUE]
         IN IF s.run.mainWindow # Null
              THEN IF mainWindow # Null
                     THEN [Send(t, PROBLEM_EXTRACTED) EXCEPT
                             !.run.pc = "solveLang",
                             !.run.problemInfo = t.problemInfo]
                     ELSE HelperCatch(t, FALSE)
              ELSE HelperAttempt(t)
    ELSE HelperCatch(s, outcome = "abort")

\* generateSolutionsHelper, the catch block, by the kind of error; then
\* processScreenshotsHelper throws on its result with success false.
SolutionsCatch(s, kind) ==
  CASE kind = "abort" ->
         HelperCatch(SendIfWindow(s, INITIAL_SOLUTION_ERROR), FALSE)
    [] kind = "timeout" ->
         HelperCatch(
           SendIfWindow(setView(clearQueues(cancelOngoingRequests(s)), "queue"),
                        INITIAL_SOLUTION_ERROR), FALSE)
    [] kind = "invalid-key" ->
         HelperCatch(SendIfWindow(s, API_KEY_INVALID), FALSE)
    [] OTHER ->
         HelperCatch(setView(SendIfWindow(s, INITIAL_SOLUTION_ERROR), "queue"),
                     FALSE)

\* generateSolutionsHelper after "await getLanguage()" and
\* "await getConfiguredModel()"
SolutionLanguageRead(s) ==
  IF ~HasApiKey THEN SolutionsCatch(s, "error")
  ELSE IF s.run.problemInfo = Null THEN SolutionsCatch(s, "error")
  ELSE IF Provider = OpenAI THEN [s EXCEPT !.run.pc = "solve"]
  ELSE IF Provider = Gemini
    THEN IF s.run.signalAborted
           THEN SolutionsCatch(s, "abort")
           ELSE [s EXCEPT !.run.pc = "solve"]
  ELSE SolutionsCatch(s, "error")

\* generateSolutionsHelper after the solution call
SolutionReturned(s, outcome) ==
  IF outcome = "text"
    THEN IF mainWindow # Null
           THEN QueueResultSuccess(
                  Send(clearExtraScreenshotQueue(s), SOLUTION_SUCCESS))
           ELSE HelperCatch(clearExtraScreenshotQueue(s), FALSE)
    ELSE SolutionsCatch(s, outcome)

\* processExtraScreenshotsHelper after the debug call
DebugReturned(s, outcome) ==
  IF outcome = "text" THEN DebugResult(s, TRUE) ELSE DebugHelperCatch(s, outcome)

Resume(s) == 
  /\ Commit(s)
  /\ lastOp' = ProcOp("resume", FALSE)
  /\ UNCHANGED callTick
  /\ NotWindow
  /\ NotConfig
  /\ NotRenderer

\* The steps of the run in flight, one for each await that completes.
ReadStep ==
  /\ run.pc = "read"
  /\ \E ok \in BOOLEAN : Resume(ScreenshotsRead(Snapshot, ok))

LanguageStep ==
  /\ run.pc = "lang"
  /\ run.attempts <= MaxAttempts
  /\ Resume(LanguageRead(Snapshot))

ExtractionStep ==
  /\ run.pc = "extract"
  /\ \E outcome \in CallOutcomes(Snapshot, ExtractionResults) :
       Resume(ExtractionReturned(Snapshot, outcome))

SolutionLanguageStep ==
  /\ run.pc = "solveLang"
  /\ Resume(SolutionLanguageRead(Snapshot))

SolutionStep ==
  /\ run.pc = "solve"
  /\ \E outcome \in CallOutcomes(Snapshot, SolutionResults) :
       Resume(SolutionReturned(Snapshot, outcome))

DebugStep ==
  /\ run.pc = "call"
  /\ \E outcome \in CallOutcomes(Snapshot, DebugResults) :
       Resume(DebugReturned(Snapshot, outcome))

\* ipcMain.handle("cancel-processing")
CancelProcessingHandler ==
  /\ Commit(cancelProcessing(Snapshot))
  /\ lastOp' = ProcOp("cancel-processing", FALSE)
  /\ UNCHANGED callTick
  /\ NotWindow
  /\ NotConfig
  /\ NotRenderer

\* ipcMain.handle("reset-queues"): deps.clearQueues of the IPC handlers is
\* the screenshot helper's clearQueues
ResetQueuesHandler ==
  /\ Commit(ScreenshotHelperClearQueues(Snapshot))
  /\ lastOp' = ProcOp("reset-queues", FALSE)
  /\ UNCHANGED callTick
  /\ NotWindow
  /\ NotConfig
  /\ NotRenderer

\* ipcMain.handle("trigger-reset"): deps.clearQueues and deps.setView of the
\* IPC handlers are the screenshot helper's clearQueues and setView
TriggerReset(s) ==
  ScreenshotHelperSetView(
    ScreenshotHelperClearQueues(cancelOngoingRequests(s)), "queue")

TriggerResetHandler ==
  /\ Commit(TriggerReset(Snapshot))
  /\ UNCHANGED callTick
  /\ mouseMode' = IF mainWindow # Null THEN Last(ResetMouseCalls) ELSE mouseMode
  /\ lastOp' = Op("trigger-reset")
  /\ UNCHANGED << mainWindow, created, isWindowVisible, windowPosition,
                  windowSize, screenWidth, screenHeight, currentX, currentY,
                  step, bounds, shown >>
  /\ NotConfig
  /\ NotRenderer

\* main.ts takeScreenshot (trigger-screenshot, take-screenshot, the shortcut):
\* the screenshot helper hides the window, captures the screen into the queue
\* of its view and shows the window again.
takeScreenshot ==
  /\ mainWindow # Null
  /\ IF shView = "queue"
       THEN /\ screenshotQueue < MaxQueue
            /\ screenshotQueue' = screenshotQueue + 1
            /\ UNCHANGED extraScreenshotQueue
       ELSE /\ extraScreenshotQueue < MaxQueue
            /\ extraScreenshotQueue' = extraScreenshotQueue + 1
            /\ UNCHANGED screenshotQueue
  /\ UNCHANGED << view, problemInfo, hasDebugged, shView,
                  isCurrentlyProcessing, currentProcessingAbortController,
                  currentExtraProcessingAbortController, run, events, lastRun,
                  callTick >>
  /\ windowPosition' = [x |-> bounds.x, y |-> bounds.y]
  /\ windowSize' = [width |-> bounds.width, height |-> bounds.height]
  /\ mouseMode' = Last(HideMouseCalls \o ShowMouseCalls)
  /\ shown' = TRUE
  /\ isWindowVisible' = TRUE
  /\ lastOp' = Op("takeScreenshot")
  /\ UNCHANGED << mainWindow, created, screenWidth, screenHeight, currentX,
                  currentY, step, bounds >>
  /\ NotConfig
  /\ NotRenderer

(***************************************************************************)
(* The renderer: src/_pages/Main.tsx, Solutions.tsx and Debug.tsx          *)
(*                                                                         *)
(* Main shows Queue or Solutions; Solutions shows Debug in its place while *)
(* showDebugView holds.  A component listens to the events of the main     *)
(* process only while it is mounted.  One action is the delivery of one    *)
(* event: the listeners of the mounted components, the notification of the *)
(* cache subscribers, and the render and mount effects that follow.  The   *)
(* display state of Queue and of Solutions itself is left out; a string or *)
(* a list of strings of a result is one token.                             *)
(***************************************************************************)
RESET_VIEW == "reset-view"

\* What parseSolution returns, sent with SOLUTION_SUCCESS and DEBUG_SUCCESS.
Solution(n) ==
  [code |-> IF n = 1 THEN "code1" ELSE "code2",
   thoughts |-> IF n = 1 THEN "thoughts1" ELSE "thoughts2",
   time_complexity |-> IF n = 1 THEN "time1" ELSE "time2",
   space_complexity |-> IF n = 1 THEN "space1" ELSE "space2"]
Solutions == { Solution(1), Solution(2) }

EmptyCache ==
  [solution |-> Undefined, new_solution |-> Undefined,
   debug_solution |-> Undefined]

NoToasts == {}
Toast(title, variant) == [title |-> title, variant |-> variant]
Handled(event, data, toasts) ==
  [event |-> event, data |-> data, toasts |-> toasts]

SolutionsMounted == rendererView = "solutions"
DebugMounted == SolutionsMounted /\ showDebugView

\* data.field || null
OrNull(data, field) ==
  IF field \in DOMAIN data THEN data[field] ELSE Null

\* The four fields Debug takes from a value of the "new_solution" key.
FromNewSolution(data) ==
  IF data \in {Undefined, NullRec}
    THEN [newCode |-> Null, thoughtsData |-> Null,
          timeComplexityData |-> Null, spaceComplexityData |-> Null]
    ELSE [newCode |-> OrNull(data, "new_code"),
          thoughtsData |-> OrNull(data, "thoughts"),
          timeComplexityData |-> OrNull(data, "time_complexity"),
          spaceComplexityData |-> OrNull(data, "space_complexity")]

SetDebugState(st) ==
  /\ newCode' = st.newCode
  /\ thoughtsData' = st.thoughtsData
  /\ timeComplexityData' = st.timeComplexityData
  /\ spaceComplexityData' = st.spaceComplexityData

DebugStateKept ==
  UNCHANGED << newCode, thoughtsData, timeComplexityData,
               spaceComplexityData >>

\* Solutions, and Debug with it, leave the screen.
SolutionsUnmounted ==
  /\ showDebugView' = FALSE
  /\ debugProcessing' = FALSE
  /\ SetDebugState(FromNewSolution(Undefined))

\* The order in which the main process sends its events: a queue run, then
\* debug runs, and a reset at any time.
MainProcessSends(event) ==
  CASE event = INITIAL_START ->
         delivered.event \in {"none", RESET_VIEW, INITIAL_SOLUTION_ERROR}
    [] event \in {SOLUTION_SUCCESS, INITIAL_SOLUTION_ERROR} ->
         delivered.event = INITIAL_START
    [] event = DEBUG_START ->
         delivered.event \in {SOLUTION_SUCCESS, DEBUG_SUCCESS, DEBUG_ERROR}
    [] event \in {DEBUG_SUCCESS, DEBUG_ERROR} ->
         delivered.event = DEBUG_START
    [] OTHER -> TRUE

NotMainProcess ==
  /\ NotWindow
  /\ NotConfig
  /\ NotProcessing
  /\ UNCHANGED lastOp

OnSolutionStart ==
  /\ MainProcessSends(INITIAL_START)
  /\ rendererView' = "solutions"
  /\ UNCHANGED << showDebugView, debugProcessing, queryCache >>
  /\ DebugStateKept
  /\ delivered' = Handled(INITIAL_START, NullRec, NoToasts)
  /\ NotMainProcess

OnSolutionSuccess ==
  /\ MainProcessSends(SOLUTION_SUCCESS)
  /\ \E data \in Solutions :
       /\ queryCache' = IF SolutionsMounted
                          THEN [queryCache EXCEPT !.solution = data]
                          ELSE queryCache
       /\ delivered' = Handled(SOLUTION_SUCCESS, data, NoToasts)
  /\ UNCHANGED << rendererView, showDebugView, debugProcessing >>
  /\ DebugStateKept
  /\ NotMainProcess

OnSolutionError ==
  /\ MainProcessSends(INITIAL_SOLUTION_ERROR)
  /\ delivered' =
       Handled(INITIAL_SOLUTION_ERROR, NullRec,
               {Toast("Error", "error"), Toast("Processing Failed", "error")})
  /\ IF SolutionsMounted /\ queryCache.solution \in Solutions
       THEN /\ UNCHANGED << rendererView, showDebugView, debugProcessing >>
            /\ DebugStateKept
       ELSE /\ rendererView' = "queue"
            /\ SolutionsUnmounted
  /\ UNCHANGED queryCache
  /\ NotMainProcess

OnDebugStart ==
  /\ MainProcessSends(DEBUG_START)
  /\ IF DebugMounted
       THEN /\ debugProcessing' = TRUE
            /\ SetDebugState(FromNewSolution(Undefined))
            /\ queryCache' = [queryCache EXCEPT !.new_solution = NullRec]
       ELSE /\ UNCHANGED << debugProcessing, queryCache >>
            /\ DebugStateKept
  /\ UNCHANGED << rendererView, showDebugView >>
  /\ delivered' = Handled(DEBUG_START, NullRec, NoToasts)
  /\ NotMainProcess

OnDebugSuccess ==
  /\ MainProcessSends(DEBUG_SUCCESS)
  /\ \E data \in Solutions :
       /\ queryCache' =
            IF DebugMounted
              THEN [queryCache EXCEPT !.debug_solution = data,
                                      !.new_solution = data]
            ELSE IF SolutionsMounted
              THEN [queryCache EXCEPT !.debug_solution = data]
            ELSE queryCache
       /\ IF DebugMounted
            THEN SetDebugState(FromNewSolution(data))
          ELSE IF SolutionsMounted
            THEN SetDebugState(FromNewSolution(queryCache.new_solution))
          ELSE DebugStateKept
       /\ delivered' = Handled(DEBUG_SUCCESS, data, NoToasts)
  /\ showDebugView' = SolutionsMounted
  /\ debugProcessing' = FALSE
  /\ UNCHANGED rendererView
  /\ NotMainProcess

OnDebugError ==
  /\ MainProcessSends(DEBUG_ERROR)
  /\ delivered' =
       Handled(DEBUG_ERROR, NullRec,
               IF DebugMounted THEN {Toast("Processing Failed", "error")}
               ELSE NoToasts)
  /\ debugProcessing' = IF DebugMounted THEN FALSE ELSE debugProcessing
  /\ UNCHANGED << rendererView, showDebugView, queryCache >>
  /\ DebugStateKept
  /\ NotMainProcess

OnResetView ==
  /\ MainProcessSends(RESET_VIEW)
  /\ rendererView' = "queue"
  /\ SolutionsUnmounted
  /\ queryCache' =
       [queryCache EXCEPT !.solution = Undefined,
                          !.new_solution =
                            IF SolutionsMounted THEN Undefined ELSE @]
  /\ delivered' = Handled(RESET_VIEW, NullRec, NoToasts)
  /\ NotMainProcess

InitRenderer ==
  /\ rendererView = "queue"
  /\ showDebugView = FALSE
  /\ debugProcessing = FALSE
  /\ queryCache = EmptyCache
  /\ newCode = Null
  /\ thoughtsData = Null
  /\ timeComplexityData = Null
  /\ spaceComplexityData = Null
  /\ delivered = Handled("none", NullRec, NoToasts)

InitProcessing ==
  /\ view = "queue"
  /\ problemInfo = Null
  /\ hasDebugged = FALSE
  /\ shView = "queue"
  /\ screenshotQueue = 0
  /\ extraScreenshotQueue = 0
  /\ isCurrentlyProcessing = FALSE
  /\ currentProcessingAbortController = Null
  /\ currentExtraProcessingAbortController = Null
  /\ run = NoRun
  /\ events = << >>
  /\ lastRun = LastRun("none", "none")
  /\ callTick = FALSE

\* The configurations a processing run can find: none saved, an OpenAI model,
\* a Gemini model, and a config.json that names another provider.
OtherProvider == Str(<< "x" >>)
GeminiModel == Str(GeminiPrefix \o << "-", "2", ".", "0" >>)
SavedConfigs ==
  { EmptyConfig, SavedConfig,
    [apiKey |-> Str(<< "k" >>), apiModel |-> GeminiModel,
     apiProvider |-> Gemini],
    [apiKey |-> Str(<< "k" >>), apiModel |-> DefaultModel,
     apiProvider |-> OtherProvider] }

ConfigLoaded ==
  /\ \E c \in SavedConfigs :
       /\ configFile = FileOf(c)
       /\ env = IF Truthy(c.apiKey)
                  THEN EnvFor(EmptyEnv, c.apiProvider, c.apiKey, c.apiModel)
                  ELSE EmptyEnv
  /\ envLoaded = TRUE
  /\ cfgOp = [op |-> "none"]

Init == WindowCreated /\ ConfigLoaded /\ InitProcessing /\ InitRenderer

Next ==
  \/ processScreenshots
  \/ ReadStep
  \/ LanguageStep
  \/ ExtractionStep
  \/ SolutionLanguageStep
  \/ SolutionStep
  \/ DebugStep
  \/ CancelProcessingHandler
  \/ ResetQueuesHandler
  \/ TriggerResetHandler
  \/ takeScreenshot
  \/ handleWindowClosed

Spec == Init /\ [][Next]_vars

WindowNotCreated ==
  /\ mainWindow = Null
  /\ created = FALSE
  /\ isWindowVisible = FALSE
  /\ windowPosition = NullRec
  /\ windowSize = NullRec
  /\ screenWidth = 0
  /\ screenHeight = 0
  /\ currentX = 0
  /\ currentY = 0
  /\ step = 0
  /\ bounds = NullRec
  /\ shown = FALSE
  /\ mouseMode = "none"
  /\ lastOp = [op |-> "none", pre |-> NullRec, pre2 |-> NullRec]

NextWindow ==
  \/ createWindow
  \/ handleWindowClosed
  \/ hideMainWindow
  \/ showMainWindow
  \/ toggleMainWindow
  \/ ToggleWindowHandler
  \/ SetIgnoreMouseEventsHandler
  \/ SetInteractiveMouseEventsHandler
  \/ moveWindowLeft
  \/ moveWindowRight
  \/ moveWindowUp
  \/ moveWindowDown
  \/ UpdateContentDimensionsHandler
  \/ TriggerResetHandler

\* the configuration part is at rest in the window specification
ConfigAtRest ==
  /\ configFile = FileOf(SavedConfig)
  /\ env = EnvFor(EmptyEnv, OpenAI, SavedConfig.apiKey, SavedConfig.apiModel)
  /\ envLoaded = TRUE
  /\ cfgOp = [op |-> "none"]

InitWindow ==
  WindowNotCreated /\ ConfigAtRest /\ InitProcessing /\ InitRenderer

SpecWindow == InitWindow /\ [][NextWindow]_vars

StoreNotRead ==
  /\ configFile \in { FileAbsent, FileCorrupt, FileOf(EmptyConfig),
                      FileOf(SavedConfig) }
  /\ env = EmptyEnv
  /\ envLoaded = FALSE
  /\ cfgOp = [op |-> "none"]

NextConfig ==
  \/ loadEnvVariables
  \/ GetApiConfigHandler
  \/ SetApiConfigHandler
  \/ handleWindowClosed

InitConfig ==
  WindowCreated /\ StoreNotRead /\ InitProcessing /\ InitRenderer

SpecConfig == InitConfig /\ [][NextConfig]_vars

NextRenderer ==
  \/ OnSolutionStart
  \/ OnSolutionSuccess
  \/ OnSolutionError
  \/ OnDebugStart
  \/ OnDebugSuccess
  \/ OnDebugError
  \/ OnResetView

SpecRenderer == Init /\ [][NextRenderer]_vars

(***************************************************************************)
(* Properties                                                              *)
(***************************************************************************)
Range(s) == { s[i] : i \in 1..Len(s) }
Sent(event) == event \in Range(events)
\* some occurrence of `first` precedes position i of the events
SentBefore(first, i) == \E j \in 1..(i - 1) : events[j] = first

\* C1: a processScreenshots call made while an earlier call has not finished
\* (isCurrentlyProcessing is true) sends no event, starts no API call and
\* leaves the view, the problem info, the abort controllers and the run in
\* flight as they are.
C1_DuplicateCallSkipped ==
  [][ (callTick' # callTick /\ isCurrentlyProcessing) =>
        UNCHANGED << events, run, view, shView, problemInfo, hasDebugged,
                     currentProcessingAbortController,
                     currentExtraProcessingAbortController,
                     isCurrentlyProcessing, screenshotQueue,
                     extraScreenshotQueue, lastRun >> ]_vars

\* a call was skipped while the extraction call of the earlier one is in flight
C1_Witness ==
  /\ lastOp.op = "processScreenshots"
  /\ lastOp.pre.skipped
  /\ run.pc = "extract"
  /\ events = << INITIAL_START >>

\* C2: when a run started in the queue view with screenshots ends without
\* success and its window still exists, INITIAL_SOLUTION_ERROR was sent to the
\* renderer during the run and the view is "queue" when processScreenshots
\* returns.
C2_FailedRunReported ==
  ( /\ lastOp.op = "resume"
    /\ run.pc = "idle"
    /\ lastRun.branch = "queue"
    /\ lastRun.result # "success"
    /\ mainWindow # Null )
  => ( /\ Sent(INITIAL_SOLUTION_ERROR)
       /\ view = "queue" )

\* the extraction call failed: the only error event is the one of
\* processScreenshots
C2_Witness ==
  /\ lastOp.op = "resume"
  /\ run.pc = "idle"
  /\ lastRun = [branch |-> "queue", result |-> "failed", extracted |-> FALSE]
  /\ mainWindow # Null
  /\ events = << INITIAL_START, INITIAL_SOLUTION_ERROR >>
  /\ view = "queue"

\* C3: in a run started from the queue view INITIAL_START is the first event,
\* PROBLEM_EXTRACTED is sent only after the extraction returned text and after
\* INITIAL_START, the solution call is reached only after PROBLEM_EXTRACTED was
\* sent, and every SOLUTION_SUCCESS follows a PROBLEM_EXTRACTED of the run.
C3_SequentialPipeline ==
  lastRun.branch = "queue" =>
    /\ events # << >> => events[1] = INITIAL_START
    /\ \A i \in 1..Len(events) :
         /\ events[i] = PROBLEM_EXTRACTED =>
              (lastRun.extracted /\ SentBefore(INITIAL_START, i))
         /\ events[i] = SOLUTION_SUCCESS => SentBefore(PROBLEM_EXTRACTED, i)
         /\ events[i] = INITIAL_START => i = 1
    /\ run.pc \in {"solveLang", "solve"} => Sent(PROBLEM_EXTRACTED)

\* a run that went through all three stages
C3_Witness ==
  /\ lastRun = [branch |-> "queue", result |-> "success", extracted |-> TRUE]
  /\ events = << INITIAL_START, PROBLEM_EXTRACTED, SOLUTION_SUCCESS,
                 SOLUTION_SUCCESS >>
  /\ view = "solutions"

\* C4: with a window, after createWindow, showMainWindow, hideMainWindow,
\* toggle-window and trigger-reset the mouse mode last applied is "ignore with
\* forwarding", and the window becomes interactive only by
\* set-interactive-mouse-events.
ClickThroughOps ==
  {"createWindow", "showMainWindow", "hideMainWindow", "toggle-window",
   "trigger-reset"}
C4_ClickThroughByDefault ==
  /\ [](mainWindow # Null /\ lastOp.op \in ClickThroughOps
          => mouseMode = IgnoreForward)
  /\ [][ (mouseMode' = Interactive /\ mouseMode # Interactive)
           => lastOp'.op = "set-interactive-mouse-events" ]_vars

\* trigger-reset found the window interactive and left it click-through
C4_Witness ==
  /\ mainWindow # Null
  /\ lastOp.op = "trigger-reset"
  /\ lastOp.pre.mouse = Interactive
  /\ mouseMode = IgnoreForward

\* C5: with a window, a toggle hides a visible window and shows a hidden one,
\* and the second of two consecutive toggles leaves isWindowVisible and the
\* window's bounds as they were before the first.
C5_ToggleRoundTrip ==
  (mainWindow # Null /\ lastOp.op \in Toggles) =>
    /\ isWindowVisible = ~lastOp.pre.vis
    /\ shown = isWindowVisible
    /\ lastOp.pre2 # NullRec =>
         /\ isWindowVisible = lastOp.pre2.vis
         /\ bounds = lastOp.pre2.bounds

\* two toggles, hidden to shown to hidden, of a window that was moved and
\* resized
C5_Witness ==
  /\ mainWindow # Null
  /\ lastOp.op \in Toggles
  /\ lastOp.pre2 # NullRec
  /\ ~isWindowVisible
  /\ bounds = lastOp.pre2.bounds
  /\ bounds.width # InitialWidth
  /\ bounds.y # InitialY
  /\ bounds.x # 0

\* C6: after trigger-reset both screenshot queues are empty, the problem info
\* is null, hasDebugged is false and state.view is "queue".
C6_ResetRestoresQueueState ==
  lastOp.op = "trigger-reset" =>
    /\ screenshotQueue = 0
    /\ extraScreenshotQueue = 0
    /\ problemInfo = Null
    /\ hasDebugged = FALSE
    /\ view = "queue"

\* C7: when set-api-config returned success for (apiKey, model), get-api-config
\* returns success with the trimmed key, the model, and the provider of the
\* model.
C7_SaveRoundTrip ==
  (cfgOp.op = "set-api-config" /\ cfgOp.result.success) =>
    GetApiConfigResult(ReadConfig(configFile, TRUE)) =
      [success |-> TRUE,
       apiKey |-> Str(Trim(cfgOp.input.apiKey.v)),
       model |-> cfgOp.input.model,
       provider |-> IF StartsWith(cfgOp.input.model.v, GeminiPrefix)
                      THEN Gemini ELSE OpenAI]

\* C8: set-api-config answers "Invalid API key" to a key that is missing, not
\* a string or blank, and "Invalid model selection" to a valid key with a
\* model that is missing or not a string; in both cases config.json and the
\* environment are unchanged and api-key-updated is not sent.
BadKey(k) ==
  \/ k.t # "string"
  \/ \A i \in 1..Len(k.v) : k.v[i] = " "
BadModel(m) ==
  \/ m.t # "string"
  \/ m.v = << >>
C8_InvalidInputRejected ==
  (cfgOp.op = "set-api-config" /\ cfgOp.input # Undefined) =>
    /\ BadKey(cfgOp.input.apiKey) =>
         /\ cfgOp.result = [success |-> FALSE, error |-> "Invalid API key"]
         /\ ~cfgOp.changed
         /\ ~cfgOp.sent
    /\ (~BadKey(cfgOp.input.apiKey) /\ BadModel(cfgOp.input.model)) =>
         /\ cfgOp.result =
              [success |-> FALSE, error |-> "Invalid model selection"]
         /\ ~cfgOp.changed
         /\ ~cfgOp.sent

\* a blank key was rejected with a configuration saved and a window to notify
C8_Witness ==
  /\ cfgOp.op = "set-api-config"
  /\ cfgOp.input # Undefined
  /\ cfgOp.input.apiKey = Str(<< " ", " " >>)
  /\ cfgOp.result = [success |-> FALSE, error |-> "Invalid API key"]
  /\ Truthy(env.API_KEY)
  /\ mainWindow # Null

\* Positions in half pixels: -width/2 <= x <= screenWidth - width/2 + slack/2
InRangeX(x2, slack) ==
  /\ -WidthOr0 <= x2
  /\ x2 <= 2 * screenWidth - WidthOr0 + slack

\* C9 as stated: from a position in range a horizontal move leaves
\* -width/2 <= currentX <= screenWidth - width/2, and a move at a limit leaves
\* currentX at the limit.
C9_HorizontalClamp ==
  ( /\ mainWindow # Null
    /\ lastOp.op \in HorizontalMoves
    /\ InRangeX(lastOp.pre.currentX, 0) )
  => /\ InRangeX(currentX, 0)
     /\ (lastOp.op = "moveWindowLeft" /\ lastOp.pre.currentX = -WidthOr0)
          => currentX = -WidthOr0
     /\ (lastOp.op = "moveWindowRight"
           /\ lastOp.pre.currentX = 2 * screenWidth - WidthOr0)
          => currentX = 2 * screenWidth - WidthOr0

\* C9 amended: the upper limit is exceeded by half a pixel at most, and only
\* with an odd width, where the window is placed at the limit rounded up and
\* the "move" listener copies that position into currentX.
C9_HorizontalClampRounded ==
  ( /\ mainWindow # Null
    /\ lastOp.op \in HorizontalMoves
    /\ InRangeX(lastOp.pre.currentX, WidthOr0 % 2) )
  => /\ InRangeX(currentX, WidthOr0 % 2)
     /\ 2 * bounds.x = 2 * MathRoundHalf(currentX)
     /\ (lastOp.op = "moveWindowLeft" /\ lastOp.pre.currentX = -WidthOr0)
          => currentX = -WidthOr0
     /\ (lastOp.op = "moveWindowRight"
           /\ lastOp.pre.currentX = 2 * screenWidth - WidthOr0)
          => currentX = 2 * screenWidth - WidthOr0

\* a move to the right ended half a pixel beyond screenWidth - width/2
C9_Witness ==
  /\ mainWindow # Null
  /\ lastOp.op = "moveWindowRight"
  /\ WidthOr0 % 2 = 1
  /\ InRangeX(lastOp.pre.currentX, 0)
  /\ currentX = 2 * screenWidth - WidthOr0 + 1

\* a third of the window's height lies inside [0, screenHeight]
ThirdOnScreen(y) ==
  /\ 3 * y >= -(2 * HeightOr0)
  /\ 3 * y + HeightOr0 <= 3 * screenHeight

\* C10: from a position with a third of the window on screen a vertical move
\* leaves currentY >= -2*height/3 and currentY + height/3 <= screenHeight.
C10_VerticalThirdOnScreen ==
  ( /\ mainWindow # Null
    /\ lastOp.op \in VerticalMoves
    /\ ThirdOnScreen(lastOp.pre.currentY) )
  => ThirdOnScreen(currentY)

\* C11: whenever no processScreenshots call is in flight (every call that passed
\* the duplicate-call check has returned or thrown) isCurrentlyProcessing is
\* false.
C11_FlagAlwaysReset ==
  run.pc = "idle" => ~isCurrentlyProcessing

\* C12: one call of processScreenshotsHelper performs at most one extraction
\* attempt (one turn of its loop) before it returns.
C12_OneExtractionAttempt ==
  run.attempts <= 1

\* the events a step appends
NewEvents == { events'[i] : i \in (Len(events) + 1)..Len(events') }
SuccessEvents == {PROBLEM_EXTRACTED, SOLUTION_SUCCESS, DEBUG_SUCCESS}

\* C13: once the signal of the run is aborted (cancelProcessing or
\* cancelOngoingRequests), the API call in flight does not come back with a
\* result: the step that ends it sends no PROBLEM_EXTRACTED, SOLUTION_SUCCESS
\* or DEBUG_SUCCESS, stores no problem info, does not set the view to
\* "solutions" and does not end the run as a success, for both providers.
C13_CancellationEffective ==
  [][ (run.pc \in {"extract", "solve", "call"} /\ run.signalAborted) =>
        /\ NewEvents \cap SuccessEvents = {}
        /\ problemInfo' \in {problemInfo, Null}
        /\ (view' = "solutions" => view = "solutions")
        /\ (lastRun'.result = "success" => lastRun.result = "success") ]_vars

\* how many times the event was sent in the run
Count(event) == Cardinality({ i \in 1..Len(events) : events[i] = event })

\* C14: when a run has ended and its window exists, a successful queue run
\* has sent SOLUTION_SUCCESS exactly once, a failed queue run
\* INITIAL_SOLUTION_ERROR exactly once and a failed debug run DEBUG_ERROR
\* exactly once.
C14_OutcomeReportedOnce ==
  (lastOp.op = "resume" /\ run.pc = "idle" /\ mainWindow # Null) =>
    /\ (lastRun.branch = "queue" /\ lastRun.result = "success")
         => Count(SOLUTION_SUCCESS) = 1
    /\ (lastRun.branch = "queue" /\ lastRun.result = "failed")
         => Count(INITIAL_SOLUTION_ERROR) = 1
    /\ (lastRun.branch = "debug" /\ lastRun.result = "failed")
         => Count(DEBUG_ERROR) = 1

\* C15: state.view, which the processing helper reads, equals the view of the
\* screenshot helper, which get-screenshots reads.
C15_SingleView ==
  view = shView

ErrorToasts == { t \in delivered.toasts : t.variant = "error" }
\* C16: whenever the renderer has handled DEBUG_ERROR, it has shown an error
\* toast, whether Debug is mounted or Solutions alone.
C16_DebugErrorShown ==
  delivered.event = DEBUG_ERROR => ErrorToasts # {}

\* C17: once the renderer has handled DEBUG_SUCCESS, the code, the thoughts
\* and the two complexities that Debug displays are those of the result
\* that the event carried, for the debug run that mounts Debug and for the
\* ones after it.
C17_DebugShowsResult ==
  (delivered.event = DEBUG_SUCCESS /\ DebugMounted) =>
    /\ newCode = delivered.data.code
    /\ thoughtsData = delivered.data.thoughts
    /\ timeComplexityData = delivered.data.time_complexity
    /\ spaceComplexityData = delivered.data.space_complexity


====
